---- MODULE Spec2Model ----
(***************************************************************************)
(* State-machine model of the gasless transfer hook                        *)
(* (src/lib/hooks/useGaslessTransfer.ts): wallet checks, precondition      *)
(* validation, instruction building, and the submission / retry loop of    *)
(* transferSOL and transferToken.  One action models the code that runs    *)
(* between two awaits of the async function.                               *)
(***************************************************************************)
EXTENDS Integers, Sequences, FiniteSets, TLC

\* ------------------------------------------------------------------------
\* Bounds of the model (not program constants)
\* ------------------------------------------------------------------------
\* cap on the number of signAndSendTransaction calls counted for one transfer
MaxSignCalls == 6
\* rate-limit responses the RPC gives during one polling phase
MaxRateLimits == 2
\* subscriptions created on the subscription page
MaxSubscriptions == 2
\* seconds of wall-clock time followed by the wallet hook
MaxTime == 8
\* fetchBalance: no more than one fetch every 3 seconds
BALANCE_THROTTLE == 3
\* debouncedFetchBalanceRef: debounce by 1 second
BALANCE_DEBOUNCE == 1
\* fetchQuote: SOL has 9 decimals, USDC/USDT have 6
SOL_UNITS == 1000000000
TOKEN_UNITS == 1000000

\* ------------------------------------------------------------------------
\* Program constants
\* ------------------------------------------------------------------------
maxRetries == 2
USDC_DECIMALS_FACTOR == 1000000
DEVNET_BASE_WAIT == 15000
MAINNET_BASE_WAIT == 5000
DEVNET_ADDITIONAL_WAIT == 15000
MAINNET_ADDITIONAL_WAIT == 5000
POLL_INTERVAL == 1000
RATE_LIMIT_WAIT == 2000
GENERIC_RETRY_WAIT == 3000
STALE_WAIT == 1000
STALE_LONG_WAIT_DEVNET == 3000
STALE_LONG_WAIT_MAINNET == 2000
INLINE_FAIL_WAIT_EXISTS == 2000
INLINE_FAIL_WAIT_MISSING == 1000
STALE_ERROR_CODE == 6019

USDC_MINT_MAINNET == "EPjFWdd5AufqSSqeM2qN1xzybapC8G4wEGGkZwyTDt1v"
USDC_MINT_DEVNET == "4zMMC9srt5Ri5X14GAgXhaHii3GnPAEERYPJgZJDncDU"

Null == "null"

\* ------------------------------------------------------------------------
\* Addresses and recipient strings
\* ------------------------------------------------------------------------
\* identities the wallet SDK can publish: a program-derived smart wallet
\* (off-curve) or a keypair-style address taken from the store fallback
Identities == {"SmartWalletPda", "KeypairWallet"}

\* strings that new PublicKey(...) accepts
ValidAddresses ==
  Identities \cup {"WalletA", "PdaB", USDC_MINT_MAINNET, USDC_MINT_DEVNET}

\* addresses for which PublicKey.isOnCurve is true (both USDC mints are
\* ed25519 points)
OnCurveAddresses ==
  {"KeypairWallet", "WalletA", USDC_MINT_MAINNET, USDC_MINT_DEVNET}

\* recipient strings a caller can pass
Recipients == ValidAddresses \cup {"", "   ", "not-an-address"}

\* String.prototype.trim
Trim(s) ==
  IF s = "   " THEN "" ELSE s

\* new PublicKey(s) succeeds
Parses(s) == s \in ValidAddresses

\* PublicKey.isOnCurve
IsOnCurve(a) == a \in OnCurveAddresses

\* ------------------------------------------------------------------------
\* Amounts: JavaScript numbers, whole units, with NaN and Infinity
\* ------------------------------------------------------------------------
Num(n) == [k |-> "num", v |-> n]
NaN == [k |-> "nan", v |-> 0]
Infinity == [k |-> "inf", v |-> 0]

Amounts == {Num(-1), Num(0), Num(1), NaN, Infinity}

\* a <= 0
LeqZero(a) == a.k = "num" /\ a.v <= 0
\* isFinite(a)
IsFinite(a) == a.k = "num"
\* a * c for a positive integer c
Times(a, c) == IF a.k = "num" THEN Num(a.v * c) ELSE a
\* b < a for an integer b
IntLess(b, a) ==
  CASE a.k = "num" -> b < a.v
    [] a.k = "inf" -> TRUE
    [] OTHER -> FALSE

\* token balances (base units) the sender's holding account can report
Balances == {0, 1000000}

\* ------------------------------------------------------------------------
\* Relay errors: what the code can observe of an error is its message, its
\* stack, its code and the first base58 run of the message
\* ------------------------------------------------------------------------
RelayError(m, s, c, a) == [msg |-> m, stack |-> s, code |-> c, addr |-> a]

ErrStale == RelayError({"TransactionTooOld"}, {"signAndSend"}, 0, "none")
ErrStaleCode == RelayError({"custom program error"}, {"signAndSend"}, STALE_ERROR_CODE, "none")
ErrStaleCreateChunk ==
  RelayError({"Transaction is too old", "Instruction: CreateChunk"}, {"signAndSend"}, 0, "none")
ErrStalePaymaster ==
  RelayError({"All retry attempts failed", "0x1783"}, {"signAndSend"}, 0, "none")
ErrRecipientMissing ==
  RelayError({"Account does not exist"}, {"signAndSend"}, 0, "recipient")
ErrStaleRecipientMissing ==
  RelayError({"TransactionTooOld", "Account does not exist"}, {"signAndSend"}, 0, "recipient")
ErrChunkMissing ==
  RelayError({"could not find account"}, {"fetchChunkContext"}, 0, "other")
ErrChunkBadKey ==
  RelayError({"has no data"}, {"executeChunkTxn"}, 0, "badkey")
ErrChunkNoAddress ==
  RelayError({"Account does not exist", "chunk"}, {"signAndSend"}, 0, "none")
ErrOtherAccount ==
  RelayError({"Account does not exist"}, {"signAndSend"}, 0, "other")
ErrUnknown == RelayError({"User rejected the request"}, {"signAndSend"}, 0, "none")

RelayErrors ==
  {ErrStale, ErrStaleCode, ErrStaleCreateChunk, ErrStalePaymaster,
   ErrRecipientMissing, ErrStaleRecipientMissing, ErrChunkMissing,
   ErrChunkBadKey, ErrChunkNoAddress, ErrOtherAccount, ErrUnknown}

\* substrings (among the markers the code looks for) of each message part
Substrings(m) ==
  CASE m = "Instruction: CreateChunk" ->
         {"Instruction: CreateChunk", "CreateChunk", "Chunk"}
    [] m = "CreateChunk" -> {"CreateChunk", "Chunk"}
    [] OTHER -> {m}

\* String.prototype.includes over a message or a stack
Includes(text, marker) == \E m \in text : marker \in Substrings(m)

isTransactionTooOld(e) ==
  \/ Includes(e.msg, "TransactionTooOld")
  \/ Includes(e.msg, "Transaction is too old")
  \/ Includes(e.msg, "0x1783")
  \/ e.code = STALE_ERROR_CODE
  \/ Includes(e.msg, "6019")

isCreateChunkError(e) ==
  \/ Includes(e.msg, "CreateChunk")
  \/ Includes(e.msg, "Instruction: CreateChunk")
  \/ Includes(e.stack, "CreateChunk")

paymasterRetried(e) ==
  \/ Includes(e.msg, "All retry attempts failed")
  \/ Includes(e.msg, "All sign retry attempts failed")

isAccountNotFound(e) ==
  \/ Includes(e.msg, "Account does not exist")
  \/ Includes(e.msg, "has no data")
  \/ Includes(e.msg, "could not find account")

\* the regular expression found a base58 run in the message
hasErrorAccountAddress(e) == e.addr # "none"

errorIsAboutRecipient(e) == e.addr = "recipient"

isChunkAccountError(e) ==
  \/ Includes(e.msg, "chunk")
  \/ Includes(e.msg, "Chunk")
  \/ Includes(e.stack, "fetchChunkContext")
  \/ Includes(e.stack, "buildExecuteChunkIns")
  \/ Includes(e.stack, "executeChunkTxn")
  \/ Includes(e.stack, "lazorkit.ts:162")
  \/ Includes(e.stack, "lazorkit.ts:593")
  \/ Includes(e.stack, "lazorkit.ts:879")

\* wait before a stale-transaction retry
staleWaitTime(e, net) ==
  IF isCreateChunkError(e) \/ paymasterRetried(e)
    THEN (IF net = "devnet" THEN STALE_LONG_WAIT_DEVNET ELSE STALE_LONG_WAIT_MAINNET)
    ELSE STALE_WAIT

\* ------------------------------------------------------------------------
\* State
\* ------------------------------------------------------------------------
VARIABLES
  isConnected,      \* wallet store: connected flag
  renderedId,       \* effectiveWalletAddress / effectiveSenderPubkey of the render
  liveId,           \* lazorkitWallet.smartWalletPubkey as read at call time
  network,          \* wallet store: "devnet" or "mainnet"
  isTransferring,   \* hook state
  lastSignature,    \* hook state (NoSig = null)
  lastTransaction,  \* hook state (NoTx = null)
  pc,               \* what the running transfer call is awaiting
  req,              \* TransferOptions of the running call, with its kind
  accountExists,    \* transferSOL: result of the recipient account check
  instructions,     \* instruction objects built for the call
  retries,          \* retry counter of the submission loop
  waitTime,         \* delay computed for the pending wait
  maxPollAttempts,  \* polling loop: iteration limit
  pollAttempts,     \* polling loop: iterations done
  accountAvailable, \* polling loop: account found
  additionalWait,   \* delay of the pending wait that follows the polling loop
  signCalls,        \* signAndSendTransaction calls made by the call
  buildCalls,       \* instruction lists built by the call
  rpcCalls,         \* account queries made before submission by the call
  blockhashCalls,   \* getFreshBlockhash calls made by the call
  subs,             \* payloads passed to signAndSendTransaction, in order
  pollDelay,        \* delay inserted so far in the current polling phase
  iterQueries,      \* account queries made in the current polling iteration
  rateLimits,       \* rate-limit responses received in the current polling phase
  unknownAt,        \* number of the submission that first failed unclassified
  outcome,          \* terminal outcome of the call
  secondStarted,    \* a form click has started a transfer while one was in flight
  otherCall,        \* a second transfer call made on the same hook: its position
  subscriptions,    \* subscription page: the subscriptions state
  nextSubId,        \* subscription page: number of the next subscription created
  charge,           \* subscription page: the handleCharge call in flight
  mounted,          \* useLazorkitWallet: the hook has rendered once
  lazorkitIsConnected,        \* useWallet().isConnected of the current render
  lazorkitSmartWalletPubkey,  \* useWallet().smartWalletPubkey of the current render
  firstRender,      \* the two values as the first render of the hook saw them
  debounceTimeout,  \* debounce: the pending timeout's due time, or NoTimeout
  isFetchingBalance,          \* isFetchingBalanceRef.current
  lastBalanceFetch, \* lastBalanceFetchRef.current, in seconds
  now,              \* Date.now(), in seconds
  balanceQueryFor,  \* the wallet of the last getBalance query since the wallet changed
  balanceThrottled, \* a fetch was skipped by the throttle since the wallet changed
  swapNetwork,      \* swap page: the network of the wallet store
  swapForm,         \* SwapInterface: inputToken, outputToken, amount
  quote,            \* useTokenSwap: the quote state
  isFetchingQuote,  \* useTokenSwap: a fetchQuote call is in flight
  quoteRequest,     \* the arguments of the fetchQuote call in flight
  isSwapping,       \* useTokenSwap: an executeSwap call is in flight
  swapCall          \* the executeSwap call in flight: its arguments, its quote and
                    \* whether its swap was handed to signAndSendTransaction

walletVars == <<isConnected, renderedId, liveId, network>>
hookVars == <<isTransferring, lastSignature, lastTransaction>>
loopVars == <<accountExists, instructions, retries, waitTime>>
pollVars == <<maxPollAttempts, pollAttempts, accountAvailable, additionalWait,
              pollDelay, iterQueries, rateLimits>>
countVars == <<signCalls, buildCalls, rpcCalls, blockhashCalls, subs, unknownAt>>
formVars == <<secondStarted>>
overlapVars == <<otherCall>>
subVars == <<subscriptions, nextSubId, charge>>
balanceVars == <<mounted, lazorkitIsConnected, lazorkitSmartWalletPubkey, firstRender,
                 debounceTimeout, isFetchingBalance, lastBalanceFetch, now,
                 balanceQueryFor, balanceThrottled>>
swapVars == <<swapNetwork, swapForm, quote, isFetchingQuote, quoteRequest, isSwapping,
              swapCall>>
pageVars == <<subVars, balanceVars, swapVars>>
extraVars == <<overlapVars, pageVars>>
\* the state of the gasless transfer hook and its callers
transferVars == <<walletVars, hookVars, pc, req, loopVars, pollVars, countVars, outcome,
                  formVars, overlapVars>>
vars == <<walletVars, hookVars, pc, req, loopVars, pollVars, countVars, outcome,
          formVars, extraVars>>

NoSig == 0
NoTx == [signature |-> NoSig, type |-> "none", amount |-> Num(0),
         recipient |-> "", network |-> "none"]
NoReq == [kind |-> "none", recipient |-> "", amount |-> Num(0)]
NoRelayError == RelayError({}, {}, 0, "none")
NoOutcome == [status |-> "none", sig |-> NoSig, err |-> "", relay |-> NoRelayError]

\* the call returned the signature
Returned(sig) == [status |-> "ok", sig |-> sig, err |-> "", relay |-> NoRelayError]
\* the call threw an error whose message the hook composed
Threw(m) == [status |-> "err", sig |-> NoSig, err |-> m, relay |-> NoRelayError]
\* the call re-threw the relay's error object
Rethrew(e) == [status |-> "err", sig |-> NoSig, err |-> "RELAY_ERROR", relay |-> e]

\* no handleCharge call is awaiting transferToken
NoCharge == [active |-> FALSE, id |-> 0, closure |-> <<>>]

\* useTokenSwap: quote === null, and no call in flight
NoQuote == [inputMint |-> Null, outputMint |-> Null, inAmount |-> 0]
NoQuoteRequest == [inputMint |-> Null, outputMint |-> Null, amount |-> 0]
NoSwap == [inputMint |-> Null, outputMint |-> Null, amount |-> NaN,
           quoteResponse |-> NoQuote, submitted |-> FALSE]

\* debounce: timeout === null
NoTimeout == -1

Idle == pc = "idle"

Init ==
  /\ isConnected = FALSE
  /\ renderedId = Null
  /\ liveId = Null
  /\ network = "devnet"
  /\ isTransferring = FALSE
  /\ lastSignature = NoSig
  /\ lastTransaction = NoTx
  /\ pc = "idle"
  /\ req = NoReq
  /\ accountExists = FALSE
  /\ instructions = <<>>
  /\ retries = 0
  /\ waitTime = 0
  /\ maxPollAttempts = 0
  /\ pollAttempts = 0
  /\ accountAvailable = FALSE
  /\ additionalWait = 0
  /\ signCalls = 0
  /\ buildCalls = 0
  /\ rpcCalls = 0
  /\ blockhashCalls = 0
  /\ subs = <<>>
  /\ pollDelay = 0
  /\ iterQueries = 0
  /\ rateLimits = 0
  /\ unknownAt = 0
  /\ outcome = NoOutcome
  /\ secondStarted = FALSE
  /\ otherCall = "none"
  /\ subscriptions = <<>>
  /\ nextSubId = 1
  /\ charge = NoCharge
  /\ mounted = FALSE
  /\ lazorkitIsConnected = FALSE
  /\ lazorkitSmartWalletPubkey = Null
  /\ firstRender = [isConnected |-> FALSE, pubkey |-> Null]
  /\ debounceTimeout = NoTimeout
  /\ isFetchingBalance = FALSE
  /\ lastBalanceFetch = 0
  /\ now = BALANCE_THROTTLE
  /\ balanceQueryFor = Null
  /\ balanceThrottled = FALSE
  /\ swapNetwork = "devnet"
  /\ swapForm = [inputToken |-> "SOL", outputToken |-> "USDC", amount |-> "1"]
  /\ quote = NoQuote
  /\ isFetchingQuote = FALSE
  /\ quoteRequest = NoQuoteRequest
  /\ isSwapping = FALSE
  /\ swapCall = NoSwap

\* ------------------------------------------------------------------------
\* Wallet and store (between transfer calls)
\* ------------------------------------------------------------------------
\* the SDK reports the wallet connected; the identity may follow later
Connect ==
  /\ Idle
  /\ ~isConnected
  /\ isConnected' = TRUE
  /\ UNCHANGED <<renderedId, liveId, network, hookVars, formVars, extraVars, pc, req, loopVars,
                 pollVars, countVars, outcome>>

\* the SDK publishes the smart wallet identity
PublishIdentity(id) ==
  /\ Idle
  /\ isConnected
  /\ liveId = Null
  /\ liveId' = id
  /\ UNCHANGED <<isConnected, renderedId, network, hookVars, formVars, extraVars, pc, req, loopVars,
                 pollVars, countVars, outcome>>

\* the hook re-renders and recomputes effectiveWalletAddress
Render ==
  /\ Idle
  /\ renderedId # liveId
  /\ renderedId' = liveId
  /\ UNCHANGED <<isConnected, liveId, network, hookVars, formVars, extraVars, pc, req, loopVars,
                 pollVars, countVars, outcome>>

Disconnect ==
  /\ Idle
  /\ isConnected
  /\ isConnected' = FALSE
  /\ liveId' = Null
  /\ renderedId' = Null
  /\ UNCHANGED <<network, hookVars, formVars, extraVars, pc, req, loopVars, pollVars, countVars,
                 outcome>>

SwitchNetwork ==
  /\ Idle
  /\ network' = IF network = "devnet" THEN "mainnet" ELSE "devnet"
  /\ UNCHANGED <<isConnected, renderedId, liveId, hookVars, formVars, extraVars, pc, req, loopVars,
                 pollVars, countVars, outcome>>

\* ------------------------------------------------------------------------
\* Helpers shared by the steps of a transfer call
\* ------------------------------------------------------------------------
ResetPoll ==
  /\ maxPollAttempts' = 0
  /\ pollAttempts' = 0
  /\ accountAvailable' = FALSE
  /\ additionalWait' = 0
  /\ pollDelay' = 0
  /\ iterQueries' = 0
  /\ rateLimits' = 0

\* a new call starts with fresh locals
ResetLocals ==
  /\ accountExists' = FALSE
  /\ instructions' = <<>>
  /\ retries' = 0
  /\ waitTime' = 0
  /\ ResetPoll
  /\ signCalls' = 0
  /\ buildCalls' = 0
  /\ blockhashCalls' = 0
  /\ subs' = <<>>
  /\ unknownAt' = 0

\* throw before setIsTransferring(true): the hook state is untouched
RejectEarly(m) ==
  /\ pc' = "done"
  /\ outcome' = Threw(m)
  /\ rpcCalls' = 0
  /\ UNCHANGED hookVars

\* setIsTransferring(true); setLastSignature(null); setLastTransaction(null);
\* then a throw inside try: catch re-throws, finally clears the flag
RejectInTry(m) ==
  /\ pc' = "done"
  /\ outcome' = Threw(m)
  /\ rpcCalls' = 0
  /\ isTransferring' = FALSE
  /\ lastSignature' = NoSig
  /\ lastTransaction' = NoTx

\* a throw inside try after the first await
Fail(o) ==
  /\ pc' = "done"
  /\ outcome' = o
  /\ isTransferring' = FALSE
  /\ UNCHANGED <<lastSignature, lastTransaction>>

\* retries remain
canRetry(r) == r < maxRetries

\* a retry that forgets to count itself
nextRetries_NotCounted(r) == r

\* retries++
nextRetries(r) == r + 1

\* clusterSimulation option of a submission made at the top of the loop
clusterSimulation(kind, exists, net) ==
  IF kind = "SOL" THEN (IF exists THEN net ELSE "none") ELSE net

Payload(site, sim, instr) == [site |-> site, sim |-> sim, instr |-> instr]

\* top of the retry loop: while (retries <= maxRetries) submit, else fall
\* out of the loop with no signature
LoopTop(r) ==
  IF r <= maxRetries
    THEN /\ signCalls < MaxSignCalls
         /\ signCalls' = signCalls + 1
         /\ subs' = Append(subs, Payload("loop",
                       clusterSimulation(req.kind, accountExists, network),
                       instructions))
         /\ pc' = "awaitSign"
         /\ outcome' = outcome
         /\ UNCHANGED hookVars
    ELSE /\ Fail(Threw("NO_SIGNATURE"))
         /\ UNCHANGED <<signCalls, subs>>

\* a step that moves on without calling getFreshBlockhash
CallBlockhash_Skipped(next) ==
  /\ blockhashCalls' = blockhashCalls
  /\ pc' = next

\* getFreshBlockhash is called
CallBlockhash(next) ==
  /\ blockhashCalls' = blockhashCalls + 1
  /\ pc' = next

\* ------------------------------------------------------------------------
\* transferSOL: from the call to the first await
\* ------------------------------------------------------------------------
\* the same checks without the on-curve test
SolPrecheck_NoCurveCheck(recipient, amount, effAddr) ==
  IF recipient = "" \/ Trim(recipient) = "" THEN "RECIPIENT_REQUIRED"
  ELSE IF ~Parses(Trim(recipient)) THEN "INVALID_ADDRESS"
  ELSE IF Trim(recipient) = effAddr THEN "SELF_TRANSFER"
  ELSE IF effAddr = Null THEN "SENDER_UNAVAILABLE"
  ELSE IF LeqZero(amount) \/ ~IsFinite(amount) THEN "INVALID_AMOUNT"
  ELSE "OK"

\* the checks made inside try before the first await, in source order
SolPrecheck(recipient, amount, effAddr) ==
  IF recipient = "" \/ Trim(recipient) = "" THEN "RECIPIENT_REQUIRED"
  ELSE IF ~Parses(Trim(recipient)) THEN "INVALID_ADDRESS"
  ELSE IF ~IsOnCurve(Trim(recipient)) THEN "OFF_CURVE"
  ELSE IF Trim(recipient) = effAddr THEN "SELF_TRANSFER"
  ELSE IF effAddr = Null THEN "SENDER_UNAVAILABLE"
  ELSE IF LeqZero(amount) \/ ~IsFinite(amount) THEN "INVALID_AMOUNT"
  ELSE "OK"

\* currentEffectiveWalletAddress: the rendered identity, else one re-read
ReResolve(rendered, live) == IF rendered # Null THEN rendered ELSE live

TransferSOL(recipient, amount) ==
  /\ Idle
  /\ req' = [kind |-> "SOL", recipient |-> recipient, amount |-> amount]
  /\ ResetLocals
  /\ UNCHANGED <<walletVars, formVars, extraVars>>
  /\ IF ~isConnected THEN RejectEarly("NOT_CONNECTED")
     ELSE IF ReResolve(renderedId, liveId) = Null THEN RejectEarly("WALLET_NOT_READY")
     ELSE LET v == SolPrecheck(recipient, amount, renderedId) IN
          IF v # "OK" THEN RejectInTry(v)
          ELSE /\ pc' = "awaitAccountInfo"
               /\ rpcCalls' = 1
               /\ isTransferring' = TRUE
               /\ lastSignature' = NoSig
               /\ lastTransaction' = NoTx
               /\ outcome' = NoOutcome

\* connection.getAccountInfo(recipientPubkey) settles; the instruction is
\* built, the mint check runs, getFreshBlockhash is called
AccountInfoResults == {"funded", "zeroLamports", "null", "throws"}

IsKnownMint(a) == a = USDC_MINT_MAINNET \/ a = USDC_MINT_DEVNET

BuildSol(n) == <<[op |-> "transfer", obj |-> n]>>

SolAccountInfo(res) ==
  /\ pc = "awaitAccountInfo"
  /\ accountExists' = (res = "funded")
  /\ buildCalls' = buildCalls + 1
  /\ instructions' = BuildSol(buildCalls + 1)
  /\ IF IsKnownMint(Trim(req.recipient))
       THEN /\ Fail(Threw("RECIPIENT_IS_MINT"))
            /\ UNCHANGED blockhashCalls
       ELSE /\ CallBlockhash("awaitBlockhash")
            /\ UNCHANGED <<hookVars, outcome>>
  /\ UNCHANGED <<walletVars, formVars, extraVars, req, retries, waitTime, pollVars, signCalls,
                 rpcCalls, subs, unknownAt>>

\* ------------------------------------------------------------------------
\* transferToken: from the call to the submission loop
\* ------------------------------------------------------------------------
TransferToken(recipient, amount) ==
  /\ Idle
  /\ req' = [kind |-> "USDC", recipient |-> recipient, amount |-> amount]
  /\ ResetLocals
  /\ UNCHANGED <<walletVars, formVars, extraVars>>
  /\ IF ~isConnected \/ renderedId = Null THEN RejectEarly("NOT_CONNECTED_TOKEN")
     ELSE IF recipient = "" \/ Trim(recipient) = "" THEN RejectEarly("RECIPIENT_REQUIRED")
     ELSE IF ~Parses(Trim(recipient)) THEN RejectInTry("INVALID_ADDRESS")
     ELSE /\ pc' = "awaitSenderAccount"
          /\ rpcCalls' = 1
          /\ isTransferring' = TRUE
          /\ lastSignature' = NoSig
          /\ lastTransaction' = NoTx
          /\ outcome' = NoOutcome

TokenAccountResult(k, b) == [kind |-> k, balance |-> b]

SenderAccountResults ==
  {TokenAccountResult("account", b) : b \in Balances}
    \cup {TokenAccountResult(k, 0) : k \in {"rateLimit", "notFound", "throws"}}

\* what the try block of the sender check throws
senderCheckThrown(res, amount) ==
  IF res.kind = "account"
    THEN (IF IntLess(res.balance, Times(amount, USDC_DECIMALS_FACTOR))
            THEN "insufficientBalance" ELSE "none")
    ELSE res.kind

\* what its catch block does with the thrown error
senderCheckRethrows(thrown) ==
  CASE thrown = "none" -> FALSE
    [] thrown = "rateLimit" -> FALSE
    [] thrown = "notFound" -> TRUE
    [] OTHER -> FALSE

TokenSenderAccount(res) ==
  /\ pc = "awaitSenderAccount"
  /\ IF senderCheckRethrows(senderCheckThrown(res, req.amount))
       THEN /\ Fail(Threw("SENDER_TOKEN_ACCOUNT_NOT_FOUND"))
            /\ UNCHANGED rpcCalls
       ELSE /\ pc' = "awaitRecipientAccount"
            /\ rpcCalls' = rpcCalls + 1
            /\ UNCHANGED <<hookVars, outcome>>
  /\ UNCHANGED <<walletVars, formVars, extraVars, req, loopVars, pollVars, signCalls, buildCalls,
                 blockhashCalls, subs, unknownAt>>

RecipientAccountResults == {"exists", "rateLimit", "notFound", "throws"}

\* an instruction list that never creates the holding account
BuildToken_TransferOnly(res, n) == <<[op |-> "transfer", obj |-> n]>>

BuildToken(res, n) ==
  IF res = "exists"
    THEN <<[op |-> "transfer", obj |-> n]>>
    ELSE <<[op |-> "createHoldingAccount", obj |-> n], [op |-> "transfer", obj |-> n]>>

TokenRecipientAccount(res) ==
  /\ pc = "awaitRecipientAccount"
  /\ buildCalls' = buildCalls + 1
  /\ instructions' = BuildToken(res, buildCalls + 1)
  /\ CallBlockhash("awaitBlockhash")
  /\ UNCHANGED <<walletVars, formVars, extraVars, hookVars, req, accountExists, retries, waitTime,
                 pollVars, signCalls, rpcCalls, subs, unknownAt, outcome>>

\* ------------------------------------------------------------------------
\* The submission loop
\* ------------------------------------------------------------------------
\* what the fetch of /api/blockhash can do: a 200 body with success = true,
\* a non-2xx status, a 200 body with success = false, or a thrown error
BlockhashResults == {"ok", "httpError", "successFalse", "throws"}

\* a helper that lets a thrown error escape
getFreshBlockhash_Propagates(res) ==
  IF res = "throws" THEN "rejected" ELSE "resolved"

\* how the promise of getFreshBlockhash settles
getFreshBlockhash(res) ==
  CASE res = "throws" -> "resolved"
    [] res = "httpError" -> "resolved"
    [] res = "successFalse" -> "resolved"
    [] OTHER -> "resolved"

\* the proactive getFreshBlockhash settles and the loop is entered
BlockhashDone(res) ==
  /\ pc = "awaitBlockhash"
  /\ IF getFreshBlockhash(res) = "resolved"
       THEN LoopTop(retries)
       ELSE /\ Fail(Threw("BLOCKHASH_FAILED"))
            /\ UNCHANGED <<signCalls, subs>>
  /\ UNCHANGED <<walletVars, formVars, extraVars, req, loopVars, pollVars, buildCalls, rpcCalls,
                 blockhashCalls, unknownAt>>

\* a success that reports the signature of the first submission
Succeed_FirstSignature(sig) ==
  /\ pc' = "done"
  /\ outcome' = Returned(1)
  /\ lastSignature' = 1
  /\ lastTransaction' =
       [signature |-> 1,
        type |-> req.kind,
        amount |-> req.amount,
        recipient |-> Trim(req.recipient),
        network |-> network]
  /\ isTransferring' = FALSE

\* setLastSignature / setLastTransaction / return signature
Succeed(sig) ==
  /\ pc' = "done"
  /\ outcome' = Returned(sig)
  /\ lastSignature' = sig
  /\ lastTransaction' =
       [signature |-> sig,
        type |-> req.kind,
        amount |-> req.amount,
        recipient |-> Trim(req.recipient),
        network |-> network]
  /\ isTransferring' = FALSE

\* an error that matches none of the markers
IsUnclassified(e) == ~isTransactionTooOld(e) /\ ~isAccountNotFound(e)

NoteUnknown(e) ==
  unknownAt' = IF unknownAt = 0 /\ IsUnclassified(e) THEN signCalls ELSE unknownAt

\* const additionalWait = network === "devnet" ? 15000 : 5000
additionalWaitFor(net) ==
  IF net = "devnet" THEN DEVNET_ADDITIONAL_WAIT ELSE MAINNET_ADDITIONAL_WAIT

\* a loop head that does not test the iteration limit
PollLoopHead_NoLimit(attempts, limit, available) ==
  IF ~available
    THEN /\ pc' = "awaitPollFinalized"
         /\ iterQueries' = 1
         /\ additionalWait' = 0
    ELSE /\ pc' = "awaitAdditionalWait"
         /\ iterQueries' = 0
         /\ additionalWait' = additionalWaitFor(network)

\* polling loop head: while (pollAttempts < maxPollAttempts && !accountAvailable);
\* after the loop the additional wait starts
PollLoopHead(attempts, limit, available) ==
  IF attempts < limit /\ ~available
    THEN /\ pc' = "awaitPollFinalized"
         /\ iterQueries' = 1
         /\ additionalWait' = 0
    ELSE /\ pc' = "awaitAdditionalWait"
         /\ iterQueries' = 0
         /\ additionalWait' = additionalWaitFor(network)

chunkWaitTime(net, r) ==
  (IF net = "devnet" THEN DEVNET_BASE_WAIT ELSE MAINNET_BASE_WAIT) * r

\* Math.ceil(waitTime / 1000)
CeilDiv(a, b) == (a + b - 1) \div b

\* catch block of transferSOL for the error e of a submission made at the
\* top of the loop
SolCatch(e) ==
  IF isTransactionTooOld(e) /\ canRetry(retries) THEN
    /\ retries' = nextRetries(retries)
    /\ waitTime' = staleWaitTime(e, network)
    /\ CallBlockhash("awaitRetryBlockhash")
    /\ UNCHANGED <<hookVars, outcome, signCalls, subs, pollVars>>
  ELSE IF isAccountNotFound(e) /\ errorIsAboutRecipient(e) THEN
    IF canRetry(retries) THEN
      \* submit again at once, without clusterSimulation
      /\ signCalls < MaxSignCalls
      /\ retries' = nextRetries(retries)
      /\ signCalls' = signCalls + 1
      /\ subs' = Append(subs, Payload("inline", "none", instructions))
      /\ pc' = "awaitInlineSign"
      /\ UNCHANGED <<hookVars, outcome, waitTime, blockhashCalls, pollVars>>
    ELSE
      /\ Fail(Threw(IF accountExists THEN "SIMULATION_FAILING" ELSE "RECIPIENT_NOT_CREATED"))
      /\ UNCHANGED <<retries, waitTime, signCalls, subs, blockhashCalls, pollVars>>
  ELSE IF isAccountNotFound(e) /\ isChunkAccountError(e) /\ hasErrorAccountAddress(e) THEN
    IF canRetry(retries) THEN
      IF e.addr = "badkey" THEN
        \* new PublicKey(errorAccountAddress) throws inside the catch block
        /\ retries' = nextRetries(retries)
        /\ Fail(Threw("INVALID_PUBLIC_KEY"))
        /\ UNCHANGED <<waitTime, signCalls, subs, blockhashCalls, pollVars>>
      ELSE
        /\ retries' = nextRetries(retries)
        /\ waitTime' = chunkWaitTime(network, nextRetries(retries))
        /\ maxPollAttempts' = CeilDiv(chunkWaitTime(network, nextRetries(retries)), POLL_INTERVAL)
        /\ pollAttempts' = 0
        /\ accountAvailable' = FALSE
        /\ pollDelay' = 0
        /\ rateLimits' = 0
        /\ PollLoopHead(0, CeilDiv(chunkWaitTime(network, nextRetries(retries)), POLL_INTERVAL), FALSE)
        /\ UNCHANGED <<hookVars, outcome, signCalls, subs, blockhashCalls>>
    ELSE
      /\ Fail(Threw("CHUNK_NOT_INDEXED"))
      /\ UNCHANGED <<retries, waitTime, signCalls, subs, blockhashCalls, pollVars>>
  ELSE IF isAccountNotFound(e) THEN
    IF canRetry(retries) THEN
      /\ retries' = nextRetries(retries)
      /\ waitTime' = GENERIC_RETRY_WAIT * nextRetries(retries)
      /\ pc' = "awaitRetryWait"
      /\ UNCHANGED <<hookVars, outcome, signCalls, subs, blockhashCalls, pollVars>>
    ELSE
      /\ Fail(Threw("OTHER_ACCOUNT_MISSING"))
      /\ UNCHANGED <<retries, waitTime, signCalls, subs, blockhashCalls, pollVars>>
  ELSE
    /\ Fail(Rethrew(e))
    /\ UNCHANGED <<retries, waitTime, signCalls, subs, blockhashCalls, pollVars>>

\* catch block of transferToken
TokenCatch(e) ==
  IF isTransactionTooOld(e) /\ canRetry(retries) THEN
    /\ retries' = nextRetries(retries)
    /\ waitTime' = staleWaitTime(e, network)
    /\ CallBlockhash("awaitRetryBlockhash")
    /\ UNCHANGED <<hookVars, outcome, signCalls, subs, pollVars>>
  ELSE
    /\ Fail(Rethrew(e))
    /\ UNCHANGED <<retries, waitTime, signCalls, subs, blockhashCalls, pollVars>>

\* the relay returns a signature for the submission made at the top of the loop
SignOk ==
  /\ pc = "awaitSign"
  /\ Succeed(signCalls)
  /\ UNCHANGED <<walletVars, formVars, extraVars, req, loopVars, pollVars, countVars>>

\* the relay fails the submission made at the top of the loop
SignError(e) ==
  /\ pc = "awaitSign"
  /\ NoteUnknown(e)
  /\ IF req.kind = "SOL" THEN SolCatch(e) ELSE TokenCatch(e)
  /\ UNCHANGED <<walletVars, formVars, extraVars, req, accountExists, instructions, buildCalls, rpcCalls>>

\* the resubmission without clusterSimulation succeeds
InlineSignOk ==
  /\ pc = "awaitInlineSign"
  /\ Succeed(signCalls)
  /\ UNCHANGED <<walletVars, formVars, extraVars, req, loopVars, pollVars, countVars>>

\* the resubmission without clusterSimulation fails: the error is logged,
\* a fixed delay follows and the loop continues
InlineSignError(e) ==
  /\ pc = "awaitInlineSign"
  /\ NoteUnknown(e)
  /\ waitTime' = IF accountExists THEN INLINE_FAIL_WAIT_EXISTS ELSE INLINE_FAIL_WAIT_MISSING
  /\ pc' = "awaitRetryWait"
  /\ UNCHANGED <<walletVars, formVars, extraVars, hookVars, req, accountExists, instructions, retries,
                 pollVars, signCalls, buildCalls, rpcCalls, blockhashCalls, subs,
                 outcome>>

\* getFreshBlockhash before a stale-transaction retry settles; the wait starts
RetryBlockhashDone(res) ==
  /\ pc = "awaitRetryBlockhash"
  /\ IF getFreshBlockhash(res) = "resolved"
       THEN /\ pc' = "awaitRetryWait"
            /\ UNCHANGED <<hookVars, outcome>>
       ELSE Fail(Threw("BLOCKHASH_FAILED"))
  /\ UNCHANGED <<walletVars, formVars, extraVars, req, loopVars, pollVars, countVars>>

\* a setTimeout before `continue` fires
RetryWaitDone ==
  /\ pc = "awaitRetryWait"
  /\ LoopTop(retries)
  /\ waitTime' = 0
  /\ UNCHANGED <<walletVars, formVars, extraVars, req, accountExists, instructions, retries, pollVars,
                 buildCalls, rpcCalls, blockhashCalls, unknownAt>>

\* ------------------------------------------------------------------------
\* Polling for the chunk account (transferSOL)
\* ------------------------------------------------------------------------
PollResults == {"info", "null", "rateLimit", "throws"}

\* pollAttempts++ and, unless it was the last iteration, the poll interval
EndIteration ==
  /\ pollAttempts' = pollAttempts + 1
  /\ IF pollAttempts + 1 < maxPollAttempts
       THEN /\ pc' = "awaitPollInterval"
            /\ pollDelay' = pollDelay + POLL_INTERVAL
            /\ iterQueries' = iterQueries
            /\ additionalWait' = additionalWait
       ELSE /\ PollLoopHead(pollAttempts + 1, maxPollAttempts, accountAvailable)
            /\ pollDelay' = pollDelay

\* a catch block that treats every error alike, without a pause
PollCatch_NoPause(res) == EndIteration

\* catch (pollError): a rate-limit response inserts a pause
PollCatch(res) ==
  IF res = "rateLimit"
    THEN /\ pc' = "awaitRateLimitWait"
         /\ pollDelay' = pollDelay + RATE_LIMIT_WAIT
         /\ UNCHANGED <<pollAttempts, iterQueries, additionalWait>>
    ELSE EndIteration

\* the account was found: break, then the additional wait
PollFound ==
  /\ accountAvailable' = TRUE
  /\ pc' = "awaitAdditionalWait"
  /\ additionalWait' = additionalWaitFor(network)
  /\ UNCHANGED <<pollAttempts, pollDelay, iterQueries>>

\* getAccountInfo(chunkPubkey, "finalized") settles
PollFinalized(res) ==
  /\ pc = "awaitPollFinalized"
  /\ res = "rateLimit" => rateLimits < MaxRateLimits
  /\ rateLimits' = IF res = "rateLimit" THEN rateLimits + 1 ELSE rateLimits
  /\ CASE res = "info" -> PollFound
       [] res = "null" ->
            /\ pc' = "awaitPollConfirmed"
            /\ iterQueries' = iterQueries + 1
            /\ UNCHANGED <<pollAttempts, pollDelay, accountAvailable, additionalWait>>
       [] OTHER -> PollCatch(res) /\ UNCHANGED accountAvailable
  /\ UNCHANGED <<walletVars, formVars, extraVars, hookVars, req, loopVars, maxPollAttempts, countVars,
                 outcome>>

\* getAccountInfo(chunkPubkey, "confirmed") settles
PollConfirmed(res) ==
  /\ pc = "awaitPollConfirmed"
  /\ res = "rateLimit" => rateLimits < MaxRateLimits
  /\ rateLimits' = IF res = "rateLimit" THEN rateLimits + 1 ELSE rateLimits
  /\ CASE res = "info" -> PollFound
       [] res = "null" -> EndIteration /\ UNCHANGED accountAvailable
       [] OTHER -> PollCatch(res) /\ UNCHANGED accountAvailable
  /\ UNCHANGED <<walletVars, formVars, extraVars, hookVars, req, loopVars, maxPollAttempts, countVars,
                 outcome>>

\* the pause after a rate-limit response is over
RateLimitWaitDone ==
  /\ pc = "awaitRateLimitWait"
  /\ EndIteration
  /\ UNCHANGED <<walletVars, formVars, extraVars, hookVars, req, loopVars, maxPollAttempts,
                 accountAvailable, rateLimits, countVars, outcome>>

\* the poll interval is over: next iteration
PollIntervalDone ==
  /\ pc = "awaitPollInterval"
  /\ PollLoopHead(pollAttempts, maxPollAttempts, accountAvailable)
  /\ UNCHANGED <<walletVars, formVars, extraVars, hookVars, req, loopVars, maxPollAttempts, pollAttempts,
                 accountAvailable, pollDelay, rateLimits, countVars, outcome>>

\* the additional wait after polling is over: continue with the loop
AdditionalWaitDone ==
  /\ pc = "awaitAdditionalWait"
  /\ LoopTop(retries)
  /\ ResetPoll
  /\ waitTime' = 0
  /\ UNCHANGED <<walletVars, formVars, extraVars, req, accountExists, instructions, retries, buildCalls,
                 rpcCalls, blockhashCalls, unknownAt>>

\* ------------------------------------------------------------------------
\* The transfer forms of the gasless-transfer page: two TransferForm
\* components that receive transferSOL / transferToken and isTransferring
\* from the one hook of the page
\* ------------------------------------------------------------------------
FormTypes == {"SOL", "USDC"}

\* contents of the amount input
AmountTexts == {"", "1", "0", "-1"}

\* parseFloat(amount)
ParseFloat(t) ==
  CASE t = "1" -> Num(1)
    [] t = "0" -> Num(0)
    [] t = "-1" -> Num(-1)
    [] t = "2" -> Num(2)
    [] OTHER -> NaN

\* a send button that does not look at the in-flight flag
ButtonDisabled_IgnoresFlag(recipient, amountText) ==
  recipient = "" \/ amountText = ""

\* disabled={isTransferring || !recipient || !amount}
ButtonDisabled(recipient, amountText) ==
  isTransferring \/ recipient = "" \/ amountText = ""

\* onClick={handleTransfer} of an enabled send button.  A click after the
\* terminal outcome of a call is a click on the idle hook; a click while a
\* call is in flight would start a second one on the same hook.
HandleTransfer(type, recipient, amountText) ==
  /\ pc # "done"
  /\ ~ButtonDisabled(recipient, amountText)
  /\ IF Idle
       THEN IF type = "SOL"
              THEN TransferSOL(recipient, ParseFloat(amountText))
              ELSE TransferToken(recipient, ParseFloat(amountText))
       ELSE /\ secondStarted' = TRUE
            /\ UNCHANGED <<walletVars, hookVars, pc, req, loopVars, pollVars,
                           countVars, outcome, extraVars>>

\* ------------------------------------------------------------------------
\* Specification
\* ------------------------------------------------------------------------
WalletStep ==
  \/ Connect
  \/ \E id \in Identities : PublishIdentity(id)
  \/ Render
  \/ Disconnect
  \/ SwitchNetwork

CallStart ==
  \/ \E r \in Recipients, a \in Amounts : TransferSOL(r, a)
  \/ \E r \in Recipients, a \in Amounts : TransferToken(r, a)

CallStep ==
  \/ \E res \in AccountInfoResults : SolAccountInfo(res)
  \/ \E res \in SenderAccountResults : TokenSenderAccount(res)
  \/ \E res \in RecipientAccountResults : TokenRecipientAccount(res)
  \/ \E res \in BlockhashResults : BlockhashDone(res)
  \/ SignOk
  \/ \E e \in RelayErrors : SignError(e)
  \/ InlineSignOk
  \/ \E e \in RelayErrors : InlineSignError(e)
  \/ \E res \in BlockhashResults : RetryBlockhashDone(res)
  \/ RetryWaitDone
  \/ \E res \in PollResults : PollFinalized(res)
  \/ \E res \in PollResults : PollConfirmed(res)
  \/ RateLimitWaitDone
  \/ PollIntervalDone
  \/ AdditionalWaitDone

\* the caller's await of the transfer settles; the call's locals are gone
Return ==
  /\ pc = "done"
  /\ pc' = "idle"
  /\ req' = NoReq
  /\ ResetLocals
  /\ rpcCalls' = 0
  /\ outcome' = NoOutcome
  /\ UNCHANGED <<walletVars, formVars, extraVars, hookVars>>

FormStep ==
  \E type \in FormTypes, r \in Recipients, t \in AmountTexts :
    HandleTransfer(type, r, t)

Next == WalletStep \/ CallStart \/ FormStep \/ CallStep \/ Return

Spec == Init /\ [][Next]_vars

\* every awaited promise of a running call eventually settles
FairSpec == Spec /\ WF_vars(CallStep)

\* ------------------------------------------------------------------------
\* A second call of transferSOL / transferToken on the same hook, made by a
\* caller that does not go through the send buttons, while the first call is
\* in flight.  Only what it does to the hook's state is modelled.
\* ------------------------------------------------------------------------
\* the second call passes its wallet checks: setIsTransferring(true);
\* setLastSignature(null); setLastTransaction(null)
OtherCallStart ==
  /\ pc \notin {"idle", "done"}
  /\ otherCall = "none"
  /\ isConnected
  /\ renderedId # Null
  /\ otherCall' = "running"
  /\ isTransferring' = TRUE
  /\ lastSignature' = NoSig
  /\ lastTransaction' = NoTx
  /\ UNCHANGED <<walletVars, pc, req, loopVars, pollVars, countVars, outcome,
                 formVars, pageVars>>

\* the second call reaches its terminal outcome: on success the result is
\* recorded; finally { setIsTransferring(false) }
OtherCallSettle(ok) ==
  /\ otherCall = "running"
  /\ otherCall' = "none"
  /\ isTransferring' = FALSE
  /\ IF ok
       THEN /\ lastSignature' = MaxSignCalls + 1
            /\ lastTransaction' =
                 [signature |-> MaxSignCalls + 1,
                  type |-> "USDC",
                  amount |-> Num(1),
                  recipient |-> "WalletA",
                  network |-> network]
       ELSE UNCHANGED <<lastSignature, lastTransaction>>
  /\ UNCHANGED <<walletVars, pc, req, loopVars, pollVars, countVars, outcome,
                 formVars, pageVars>>

OverlapStep ==
  \/ OtherCallStart
  \/ \E ok \in BOOLEAN : OtherCallSettle(ok)

OverlapNext == Next \/ OverlapStep

\* the hook with callers that may overlap their calls
OverlapSpec == Init /\ [][OverlapNext]_vars

\* ------------------------------------------------------------------------
\* The subscription page (src/app/subscription/page.tsx): a list of
\* subscriptions in component state, charged through transferToken of the
\* page's own hook
\* ------------------------------------------------------------------------
SubscriptionNames == {"", "Pro"}
SubscriptionRecipients == {"", "WalletA"}

\* the page's hook reports a transfer in flight
SubIsTransferring == charge.active

\* subscriptions.map(sub => sub.id === id ? {...sub, [field]: value} : sub)
MapSubscription(list, id, field, value) ==
  [i \in DOMAIN list |->
     IF list[i].id = id THEN [list[i] EXCEPT ![field] = value] ELSE list[i]]

\* handleCreateSubscription
HandleCreateSubscription(name, recipient, amountText) ==
  /\ nextSubId <= MaxSubscriptions
  /\ IF name = "" \/ recipient = "" \/ amountText = ""
       THEN UNCHANGED <<subscriptions, nextSubId>>
       ELSE /\ subscriptions' =
                 Append(subscriptions,
                        [id |-> nextSubId, name |-> name,
                         amount |-> ParseFloat(amountText), recipient |-> recipient,
                         status |-> "active", lastCharge |-> "none"])
            /\ nextSubId' = nextSubId + 1
  /\ UNCHANGED <<charge, transferVars, balanceVars, swapVars>>

\* onClick of "Charge Now": handleCharge runs up to `await transferToken`,
\* with the subscriptions of the render it was created in
HandleCharge(i) ==
  /\ i \in DOMAIN subscriptions
  /\ subscriptions[i].status = "active"
  /\ ~SubIsTransferring
  /\ subscriptions[i].recipient # ""
  /\ charge' = [active |-> TRUE, id |-> subscriptions[i].id, closure |-> subscriptions]
  /\ UNCHANGED <<subscriptions, nextSubId, transferVars, balanceVars, swapVars>>

\* transferToken settles: when it resolves, setSubscriptions(subscriptions.map(...))
\* with the subscriptions captured by the handler; when it throws, the error
\* is logged
ChargeSettled(ok) ==
  /\ charge.active
  /\ subscriptions' =
       IF ok THEN MapSubscription(charge.closure, charge.id, "lastCharge", "set")
             ELSE subscriptions
  /\ charge' = NoCharge
  /\ UNCHANGED <<nextSubId, transferVars, balanceVars, swapVars>>

\* onClick of "Cancel"
HandleCancel(i) ==
  /\ i \in DOMAIN subscriptions
  /\ subscriptions[i].status = "active"
  /\ subscriptions' = MapSubscription(subscriptions, subscriptions[i].id, "status", "cancelled")
  /\ UNCHANGED <<nextSubId, charge, transferVars, balanceVars, swapVars>>

SubscriptionNext ==
  \/ \E n \in SubscriptionNames, r \in SubscriptionRecipients, t \in AmountTexts :
       HandleCreateSubscription(n, r, t)
  \/ \E i \in 1..MaxSubscriptions : HandleCharge(i)
  \/ \E ok \in BOOLEAN : ChargeSettled(ok)
  \/ \E i \in 1..MaxSubscriptions : HandleCancel(i)

SubscriptionSpec == Init /\ [][SubscriptionNext]_vars

\* ------------------------------------------------------------------------
\* useLazorkitWallet (src/unnamed/part_014): the balance is fetched when the
\* wallet connects, through a debounced function kept in a ref
\* ------------------------------------------------------------------------
SmartWallets == {"WalletA", "WalletB"}

\* what useWallet() can report: a public key only while connected
WalletReports ==
  {w \in [isConnected : BOOLEAN, pubkey : SmartWallets \cup {Null}] :
     w.pubkey # Null => w.isConnected}

\* fetchBalance of a render that saw the given public key: the guards and, if
\* they pass, the getBalance query
FetchBalance(pubkey) ==
  IF pubkey = Null \/ isFetchingBalance
    THEN UNCHANGED <<isFetchingBalance, lastBalanceFetch, balanceQueryFor, balanceThrottled>>
  ELSE IF now - lastBalanceFetch < BALANCE_THROTTLE
    THEN /\ balanceThrottled' = TRUE
         /\ UNCHANGED <<isFetchingBalance, lastBalanceFetch, balanceQueryFor>>
    ELSE /\ isFetchingBalance' = TRUE
         /\ lastBalanceFetch' = now
         /\ balanceQueryFor' = pubkey
         /\ UNCHANGED balanceThrottled

\* the effect on [lazorkitIsConnected, lazorkitSmartWalletPubkey, network]:
\* a call of the debounced function, which restarts its timeout
ConnectEffect(w) ==
  IF w.isConnected /\ w.pubkey # Null
    THEN debounceTimeout' = now + BALANCE_DEBOUNCE
    ELSE UNCHANGED debounceTimeout

\* first render of the hook: useRef keeps the debounced function created now
Mount(w) ==
  /\ ~mounted
  /\ mounted' = TRUE
  /\ lazorkitIsConnected' = w.isConnected
  /\ lazorkitSmartWalletPubkey' = w.pubkey
  /\ firstRender' = w
  /\ ConnectEffect(w)
  /\ UNCHANGED <<isFetchingBalance, lastBalanceFetch, now, balanceQueryFor,
                 balanceThrottled, transferVars, subVars, swapVars>>

\* useWallet() reports a new connection state: the hook renders again and the
\* effect runs
WalletChanged(w) ==
  /\ mounted
  /\ now + BALANCE_DEBOUNCE <= MaxTime
  /\ w # [isConnected |-> lazorkitIsConnected, pubkey |-> lazorkitSmartWalletPubkey]
  /\ lazorkitIsConnected' = w.isConnected
  /\ lazorkitSmartWalletPubkey' = w.pubkey
  /\ ConnectEffect(w)
  /\ balanceQueryFor' = Null
  /\ balanceThrottled' = FALSE
  /\ UNCHANGED <<mounted, firstRender, isFetchingBalance, lastBalanceFetch, now,
                 transferVars, subVars, swapVars>>

\* the timeout of debounce fires: `later` runs the function handed to debounce
\* in the first render, with that render's lazorkitIsConnected and fetchBalance
DebounceFires ==
  /\ debounceTimeout # NoTimeout
  /\ now >= debounceTimeout
  /\ debounceTimeout' = NoTimeout
  /\ IF firstRender.isConnected
       THEN FetchBalance(firstRender.pubkey)
       ELSE UNCHANGED <<isFetchingBalance, lastBalanceFetch, balanceQueryFor,
                        balanceThrottled>>
  /\ UNCHANGED <<mounted, lazorkitIsConnected, lazorkitSmartWalletPubkey, firstRender,
                 now, transferVars, subVars, swapVars>>

\* a component calls the fetchBalance returned by the current render
FetchBalanceCalled ==
  /\ mounted
  /\ FetchBalance(lazorkitSmartWalletPubkey)
  /\ UNCHANGED <<mounted, lazorkitIsConnected, lazorkitSmartWalletPubkey, firstRender,
                 debounceTimeout, now, transferVars, subVars, swapVars>>

\* getBalance settles: the finally block of fetchBalance
BalanceSettled ==
  /\ isFetchingBalance
  /\ isFetchingBalance' = FALSE
  /\ UNCHANGED <<mounted, lazorkitIsConnected, lazorkitSmartWalletPubkey, firstRender,
                 debounceTimeout, lastBalanceFetch, now, balanceQueryFor,
                 balanceThrottled, transferVars, subVars, swapVars>>

\* a second passes; a timeout that is due fires first
Tick ==
  /\ mounted
  /\ now < MaxTime
  /\ debounceTimeout = NoTimeout \/ now < debounceTimeout
  /\ now' = now + 1
  /\ UNCHANGED <<mounted, lazorkitIsConnected, lazorkitSmartWalletPubkey, firstRender,
                 debounceTimeout, isFetchingBalance, lastBalanceFetch, balanceQueryFor,
                 balanceThrottled, transferVars, subVars, swapVars>>

BalanceNext ==
  \/ \E w \in WalletReports : Mount(w)
  \/ \E w \in WalletReports : WalletChanged(w)
  \/ DebounceFires
  \/ FetchBalanceCalled
  \/ BalanceSettled
  \/ Tick

\* timeouts fire, time passes and queries settle; nothing obliges the wallet
\* to change or a component to call fetchBalance
BalanceSpec ==
  /\ Init
  /\ [][BalanceNext]_vars
  /\ WF_vars(DebounceFires)
  /\ WF_vars(BalanceSettled)
  /\ WF_vars(Tick)

\* ------------------------------------------------------------------------
\* useTokenSwap and SwapInterface (src/lib/hooks/useTokenSwap.ts,
\* src/unnamed/part_008): a quote is fetched for the form inputs, a swap is
\* built from the quote state
\* ------------------------------------------------------------------------
SwapTokens == {"SOL", "USDC"}
SwapAmountTexts == {"", "1", "2"}

\* amountInSmallestUnit
SmallestUnit(inputMint, amount) ==
  IF inputMint = "SOL" THEN amount * SOL_UNITS ELSE amount * TOKEN_UNITS

\* the quote stored for a request answered by Jupiter
QuoteFor(request) ==
  [inputMint |-> request.inputMint, outputMint |-> request.outputMint,
   inAmount |-> SmallestUnit(request.inputMint, request.amount)]

\* the select boxes, the amount field and the flip button
SetInputToken(t) ==
  /\ t # swapForm.inputToken
  /\ swapForm' = [swapForm EXCEPT !.inputToken = t]
  /\ UNCHANGED <<swapNetwork, quote, isFetchingQuote, quoteRequest, isSwapping, swapCall,
                 transferVars, subVars, balanceVars>>

SetOutputToken(t) ==
  /\ t # swapForm.outputToken
  /\ swapForm' = [swapForm EXCEPT !.outputToken = t]
  /\ UNCHANGED <<swapNetwork, quote, isFetchingQuote, quoteRequest, isSwapping, swapCall,
                 transferVars, subVars, balanceVars>>

SetAmount(t) ==
  /\ t # swapForm.amount
  /\ swapForm' = [swapForm EXCEPT !.amount = t]
  /\ UNCHANGED <<swapNetwork, quote, isFetchingQuote, quoteRequest, isSwapping, swapCall,
                 transferVars, subVars, balanceVars>>

FlipTokens ==
  /\ swapForm.inputToken # swapForm.outputToken
  /\ swapForm' = [swapForm EXCEPT !.inputToken = swapForm.outputToken,
                                  !.outputToken = swapForm.inputToken]
  /\ UNCHANGED <<swapNetwork, quote, isFetchingQuote, quoteRequest, isSwapping, swapCall,
                 transferVars, subVars, balanceVars>>

\* the network of the store changes: the effect resets the two tokens
SwapNetworkSwitched ==
  /\ swapNetwork' = IF swapNetwork = "devnet" THEN "mainnet" ELSE "devnet"
  /\ swapForm' = [swapForm EXCEPT !.inputToken = "SOL", !.outputToken = "USDC"]
  /\ UNCHANGED <<quote, isFetchingQuote, quoteRequest, isSwapping, swapCall,
                 transferVars, subVars, balanceVars>>

\* onClick of "Get Quote": handleGetQuote and fetchQuote up to the request
HandleGetQuote(connected) ==
  /\ ~isFetchingQuote
  /\ swapForm.amount # ""
  /\ ParseFloat(swapForm.amount).k = "num" /\ ParseFloat(swapForm.amount).v > 0
  /\ IF ~connected \/ swapNetwork = "devnet"
       THEN UNCHANGED <<quote, isFetchingQuote, quoteRequest>>
       ELSE /\ isFetchingQuote' = TRUE
            /\ quote' = NoQuote
            /\ quoteRequest' = [inputMint |-> swapForm.inputToken,
                                outputMint |-> swapForm.outputToken,
                                amount |-> ParseFloat(swapForm.amount).v]
  /\ UNCHANGED <<swapNetwork, swapForm, isSwapping, swapCall,
                 transferVars, subVars, balanceVars>>

\* the quote request settles
QuoteSettled(ok) ==
  /\ isFetchingQuote
  /\ quote' = IF ok THEN QuoteFor(quoteRequest) ELSE quote
  /\ isFetchingQuote' = FALSE
  /\ quoteRequest' = NoQuoteRequest
  /\ UNCHANGED <<swapNetwork, swapForm, isSwapping, swapCall,
                 transferVars, subVars, balanceVars>>

\* onClick of "Execute Swap": handleSwap and executeSwap up to the request for
\* the swap transaction, whose body carries the quote state
HandleSwap(connected) ==
  /\ ~isSwapping
  /\ quote # NoQuote
  /\ IF ~connected \/ swapNetwork = "devnet"
       THEN UNCHANGED <<isSwapping, swapCall>>
       ELSE /\ isSwapping' = TRUE
            /\ swapCall' = [inputMint |-> swapForm.inputToken,
                            outputMint |-> swapForm.outputToken,
                            amount |-> ParseFloat(swapForm.amount),
                            quoteResponse |-> quote, submitted |-> FALSE]
  /\ UNCHANGED <<swapNetwork, swapForm, quote, isFetchingQuote, quoteRequest,
                 transferVars, subVars, balanceVars>>

\* Jupiter answers with the transaction for the quote it was sent; its
\* instructions go to signAndSendTransaction
SwapTransactionBuilt(ok) ==
  /\ isSwapping
  /\ ~swapCall.submitted
  /\ IF ok THEN /\ swapCall' = [swapCall EXCEPT !.submitted = TRUE]
                /\ UNCHANGED isSwapping
           ELSE /\ isSwapping' = FALSE
                /\ swapCall' = NoSwap
  /\ UNCHANGED <<swapNetwork, swapForm, quote, isFetchingQuote, quoteRequest,
                 transferVars, subVars, balanceVars>>

\* signAndSendTransaction settles: the finally block of executeSwap
SwapSettled ==
  /\ isSwapping
  /\ swapCall.submitted
  /\ isSwapping' = FALSE
  /\ swapCall' = NoSwap
  /\ UNCHANGED <<swapNetwork, swapForm, quote, isFetchingQuote, quoteRequest,
                 transferVars, subVars, balanceVars>>

SwapNext ==
  \/ \E t \in SwapTokens : SetInputToken(t)
  \/ \E t \in SwapTokens : SetOutputToken(t)
  \/ \E t \in SwapAmountTexts : SetAmount(t)
  \/ FlipTokens
  \/ SwapNetworkSwitched
  \/ \E c \in BOOLEAN : HandleGetQuote(c)
  \/ \E ok \in BOOLEAN : QuoteSettled(ok)
  \/ \E c \in BOOLEAN : HandleSwap(c)
  \/ \E ok \in BOOLEAN : SwapTransactionBuilt(ok)
  \/ SwapSettled

SwapSpec == Init /\ [][SwapNext]_vars

TypeOK ==
  /\ isConnected \in BOOLEAN
  /\ renderedId \in Identities \cup {Null}
  /\ liveId \in Identities \cup {Null}
  /\ network \in {"devnet", "mainnet"}
  /\ isTransferring \in BOOLEAN
  /\ retries \in 0..maxRetries
  /\ signCalls \in 0..MaxSignCalls
  /\ Len(subs) = signCalls
  /\ secondStarted \in BOOLEAN

\* ------------------------------------------------------------------------
\* Properties
\* ------------------------------------------------------------------------
\* the sender's smart wallet address of the running call
Sender == ReResolve(renderedId, liveId)

\* the running call got past the wallet checks with a rendered identity
WalletReady == req.kind # "none" /\ isConnected /\ renderedId # Null

Recipient == Trim(req.recipient)

AmountInvalid == LeqZero(req.amount) \/ ~IsFinite(req.amount)

NetworkCalls == rpcCalls + blockhashCalls + signCalls

\* C1: one transfer makes at most maxRetries + 1 = 3 signAndSendTransaction
\* calls, whatever the relay answers.
C1_RetryBudget == signCalls <= maxRetries + 1

\* C2: a submission (also the resubmission without simulation) that fails
\* with an unclassified error ends the transfer at once: that error is thrown
\* and no further submission is made.
C2_UnknownPassThrough ==
  unknownAt # 0 =>
    /\ signCalls = unknownAt
    /\ pc = "done"
    /\ outcome = Rethrew(ErrUnknown)

\* C3: the instruction list is rebuilt for every submission: as many builds
\* as submissions, and no two submissions carry the same instruction objects.
C3_RebuiltPerAttempt ==
  /\ signCalls >= 1 => buildCalls = signCalls
  /\ \A i, j \in DOMAIN subs : i # j => subs[i].instr # subs[j].instr

\* the first precondition of the validator's list that the request violates
\* (checks 2 to 7, in the documented order)
FirstViolation(kind, recipient, amount, sender) ==
  IF recipient = "" \/ Trim(recipient) = "" THEN "RECIPIENT_REQUIRED"
  ELSE IF ~Parses(Trim(recipient)) THEN "INVALID_ADDRESS"
  ELSE IF kind = "SOL" /\ ~IsOnCurve(Trim(recipient)) THEN "OFF_CURVE"
  ELSE IF Trim(recipient) = sender THEN "SELF_TRANSFER"
  ELSE IF IsKnownMint(Trim(recipient)) THEN "RECIPIENT_IS_MINT"
  ELSE IF LeqZero(amount) \/ ~IsFinite(amount) THEN "INVALID_AMOUNT"
  ELSE "OK"

\* C4: a request that fails a precondition check is rejected before any
\* network call (account query, blockhash fetch, relay submission).
C4_RejectBeforeNetwork ==
  (WalletReady /\ FirstViolation(req.kind, req.recipient, req.amount, Sender) # "OK")
    => NetworkCalls = 0

\* C5: a transfer whose recipient is the sender's own smart wallet fails with
\* the self-transfer error and makes no network call (stated for requests
\* that pass the checks ordered before the self-transfer check).
C5_SelfTransferDenied ==
  (WalletReady /\ FirstViolation(req.kind, req.recipient, req.amount, Sender) = "SELF_TRANSFER")
    => /\ NetworkCalls = 0
       /\ pc = "done" => outcome = Threw("SELF_TRANSFER")

\* C6: a transfer whose amount is zero, negative, NaN or infinite is rejected
\* with the invalid-amount error and never reaches signAndSendTransaction
\* (stated for requests that violate no other check).
C6_InvalidAmountRejected ==
  (WalletReady /\ FirstViolation(req.kind, req.recipient, req.amount, Sender) = "INVALID_AMOUNT")
    => /\ signCalls = 0
       /\ pc = "done" => outcome = Threw("INVALID_AMOUNT")

\* C7: the error reported is that of the first violated check in the order
\* non-empty, parses, on-curve (native), not the sender, not a mint, amount;
\* a mint recipient with a non-positive amount is reported as a mint.
C7_FirstViolationReported ==
  (WalletReady /\ pc = "done"
     /\ FirstViolation(req.kind, req.recipient, req.amount, Sender) # "OK")
    => outcome = Threw(FirstViolation(req.kind, req.recipient, req.amount, Sender))

\* C8: a native transfer to an off-curve recipient never reaches
\* signAndSendTransaction and, once the wallet checks have passed, always
\* fails with the unsupported-recipient (on-curve) error.
C8_OnCurveEnforced ==
  (req.kind = "SOL" /\ Parses(Recipient) /\ ~IsOnCurve(Recipient))
    => /\ signCalls = 0
       /\ pc # "idle" => pc = "done"
       /\ pc = "done" =>
            outcome \in {Threw("OFF_CURVE"), Threw("NOT_CONNECTED"),
                         Threw("WALLET_NOT_READY")}
       /\ (pc = "done" /\ isConnected /\ Sender # Null) => outcome = Threw("OFF_CURVE")

C8_Witness ==
  /\ pc = "done"
  /\ req.kind = "SOL"
  /\ Recipient = "SmartWalletPda"
  /\ renderedId = "SmartWalletPda"
  /\ outcome = Threw("OFF_CURVE")

\* the per-call record of submissions, queries and waits
CallFootprint ==
  <<signCalls, subs, rpcCalls, blockhashCalls, buildCalls, pollAttempts,
    pollDelay, iterQueries, retries, outcome>>

\* C9: every call terminates in exactly one terminal outcome (a returned
\* signature or a thrown error), and once it has, nothing more of that call
\* happens: no submission, no poll, no wait.
C9_OneTerminalOutcome ==
  /\ [](pc # "idle" => <>(pc = "done"))
  /\ [](pc = "done" <=> outcome.status \in {"ok", "err"})
  /\ [](outcome.status = "ok" => outcome.sig # NoSig /\ outcome.sig <= signCalls)
  /\ [][pc = "done" => (pc' = "idle" \/ UNCHANGED CallFootprint)]_vars
  /\ [][outcome.status # "none" => outcome'.status = "none" \/ outcome' = outcome]_vars

C9_Witness ==
  /\ pc = "done"
  /\ outcome.status = "err"
  /\ signCalls = 5

\* C10: after a submission fails with an account-not-found error about the
\* recipient there is exactly one further submission, without a
\* clusterSimulation hint; if it fails too, the transfer ends with the
\* diagnostic error and nothing more is submitted.
C10_RecipientRetriedOnce ==
  \A i \in DOMAIN subs :
    subs[i].site = "inline" =>
      /\ subs[i].sim = "none"
      /\ i = Len(subs)
      /\ pc \in {"awaitInlineSign", "done"}
      /\ (pc = "done" /\ outcome.status = "err") =>
           outcome \in {Threw("SIMULATION_FAILING"), Threw("RECIPIENT_NOT_CREATED")}

\* C11: a transfer that fails with its retry budget used up on a classified
\* error (stale transaction or account not found) throws a message composed
\* by the hook, never the relay's own error object.
C11_ExhaustedBudgetComposed ==
  (pc = "done" /\ outcome.status = "err" /\ retries = maxRetries
     /\ outcome.err = "RELAY_ERROR")
    => IsUnclassified(outcome.relay)

\* an account-not-found error about a chunk account of the relay: it names an
\* address other than the recipient and carries a chunk marker
IsChunkIndexingError(e) ==
  /\ isAccountNotFound(e)
  /\ ~errorIsAboutRecipient(e)
  /\ isChunkAccountError(e)
  /\ hasErrorAccountAddress(e)

\* C12: for either asset kind an account-not-found error about a chunk
\* account is transient: while retries remain the transfer does not end on
\* that error.
C12_ChunkErrorTransient ==
  (pc = "done" /\ outcome.err = "RELAY_ERROR" /\ IsChunkIndexingError(outcome.relay))
    => ~canRetry(retries)

\* the pre-submission check of the running call found the recipient account
\* (token transfers: the recipient's holding account, which is then not
\* created by the instruction list)
RecipientAccountFound(instr) ==
  IF req.kind = "SOL"
    THEN accountExists
    ELSE \A k \in DOMAIN instr : instr[k].op # "createHoldingAccount"

\* C13: every signAndSendTransaction call that carries a clusterSimulation
\* hint belongs to a transfer whose pre-submission check found the recipient
\* account (token transfers: the recipient's holding account) on-chain.
C13_SimulationOnlyIfAccountFound ==
  \A i \in DOMAIN subs :
    subs[i].sim # "none" => RecipientAccountFound(subs[i].instr)

\* a submission made at the top of the loop fails with a stale-transaction
\* error while retries remain
StaleFailureWithRetriesLeft ==
  \E e \in RelayErrors : isTransactionTooOld(e) /\ canRetry(retries) /\ SignError(e)

\* between a stale-transaction failure and the next submission
StaleRetryPending == pc \in {"awaitRetryBlockhash", "awaitRetryWait"}

ChunkFailureWithRetriesLeft ==
  \E e \in RelayErrors :
    /\ req.kind = "SOL"
    /\ IsChunkIndexingError(e)
    /\ ~isTransactionTooOld(e)
    /\ canRetry(retries)
    /\ SignError(e)

Polling ==
  pc \in {"awaitPollFinalized", "awaitPollConfirmed", "awaitRateLimitWait",
          "awaitPollInterval"}

\* C15: after a chunk-account error with retries remaining the transfer polls
\* for the account, then waits the additional buffer (15 s on devnet, 5 s on
\* mainnet), then resubmits, in that order, whether or not polling found the
\* account.
C15_PollThenBufferThenResubmit ==
  /\ [][ChunkFailureWithRetriesLeft =>
          Polling' /\ pollAttempts' = 0 /\ signCalls' = signCalls]_vars
  /\ [][Polling => (Polling' \/ pc' = "awaitAdditionalWait") /\ signCalls' = signCalls]_vars
  /\ [](pc = "awaitAdditionalWait" =>
          additionalWait = IF network = "devnet" THEN 15000 ELSE 5000)
  /\ [][pc = "awaitAdditionalWait" =>
          pc' = "awaitSign" /\ signCalls' = signCalls + 1]_vars
  /\ [](Polling => <>(pc = "awaitAdditionalWait"))
  /\ [](pc = "awaitAdditionalWait" => <>(pc = "awaitSign"))

\* the operations of an instruction list, in order
Ops(instr) == [k \in DOMAIN instr |-> instr[k].op]

\* C16: in a token transfer, when the query for the recipient's holding
\* account fails for any reason (not found, rate limit '429', other) the
\* submitted instruction list is exactly [create-holding-account, transfer]
\* and the transfer goes on; when the query succeeds the list is [transfer].
C16_HoldingAccountCreatedOnAnyFailure ==
  /\ [][\A res \in RecipientAccountResults :
          TokenRecipientAccount(res) =>
            /\ Ops(instructions') =
                 IF res = "exists"
                   THEN <<"transfer">>
                   ELSE <<"createHoldingAccount", "transfer">>
            /\ pc' = "awaitBlockhash"
            /\ outcome' = NoOutcome]_vars
  /\ [](req.kind = "USDC" => \A i \in DOMAIN subs : subs[i].instr = instructions)

C16_Witness ==
  /\ req.kind = "USDC"
  /\ pc = "done"
  /\ outcome.status = "ok"
  /\ Ops(subs[1].instr) = <<"createHoldingAccount", "transfer">>

\* C17: a transfer of either kind requested on a connected wallet whose
\* identity is still absent after one re-resolution fails with the
\* wallet-not-ready error (not the not-connected error), makes no network
\* call and does not set the in-flight flag.
C17_UnresolvedIdentityNotReady ==
  (pc = "done" /\ isConnected /\ renderedId = Null /\ liveId = Null)
    => /\ outcome = Threw("WALLET_NOT_READY")
       /\ NetworkCalls = 0
       /\ ~isTransferring

\* C18: getFreshBlockhash is called exactly once before the first submission
\* of a transfer, and whatever its outcome (HTTP error status, thrown network
\* error, success = false body) the first submission is made.
C18_BlockhashOnceBeforeFirstSubmission ==
  /\ [](pc = "awaitBlockhash" => blockhashCalls = 1 /\ signCalls = 0)
  /\ [][(signCalls = 0 /\ signCalls' = 1) =>
          pc = "awaitBlockhash" /\ blockhashCalls' = 1]_vars
  /\ [][\A res \in BlockhashResults :
          BlockhashDone(res) => pc' = "awaitSign" /\ signCalls' = 1]_vars

C18_Witness ==
  /\ pc = "awaitSign"
  /\ signCalls = 1
  /\ blockhashCalls = 1

\* a signAndSendTransaction call of the running transfer returns a signature
\* (the signature of the n-th call is n)
RelayReturnsSignature == SignOk \/ InlineSignOk

\* C19: when a signAndSendTransaction call returns a signature the transfer
\* makes no further submission and returns exactly that signature; with no
\* relay error exactly one submission is made.
C19_SignatureReturnedUnchanged ==
  /\ [][RelayReturnsSignature =>
          /\ pc' = "done"
          /\ outcome' = Returned(signCalls)
          /\ signCalls' = signCalls]_vars
  /\ [](outcome.status = "ok" =>
          pc = "done" /\ outcome.sig = signCalls /\ Len(subs) = signCalls)
  /\ [][(\E e \in RelayErrors : SignError(e)) =>
          retries' = retries + 1 \/ outcome'.status = "err"]_vars
  /\ []((outcome.status = "ok" /\ retries = 0) => signCalls = 1)

C19_Witness ==
  /\ pc = "done"
  /\ retries = 0
  /\ signCalls = 1
  /\ outcome = Returned(1)
  /\ lastSignature = 1

\* a transfer call is between its wallet checks and its terminal outcome
InFlight == pc \notin {"idle", "done"}

\* C20: isTransferring is true from the moment a transfer has passed the
\* wallet checks until its terminal outcome and false afterwards; the send
\* button of the forms is disabled whenever the flag is true, so no second
\* transfer is started from the forms sharing the hook while one is in flight.
C20_FlagGuardsTheForms ==
  /\ InFlight <=> isTransferring
  /\ isTransferring =>
       \A r \in Recipients, t \in AmountTexts : ButtonDisabled(r, t)
  /\ ~secondStarted

C20_Witness ==
  /\ pc = "awaitSign"
  /\ isTransferring
  /\ ButtonDisabled("WalletA", "1")
  /\ ~secondStarted

\* C21: calls that overlap on one hook share no mutable state: isTransferring
\* is true in every state in which at least one call is between its start of
\* submission and its terminal outcome, also when one of two overlapping
\* calls has finished.
C21_FlagCoversEveryCall ==
  (InFlight \/ otherCall = "running") => isTransferring

\* the sender's holding account was read and holds less than amount * 10^6
SenderBalanceTooLow(res) ==
  /\ res.kind = "account"
  /\ IntLess(res.balance, Times(req.amount, USDC_DECIMALS_FACTOR))

\* C22: in transferToken, when the sender's holding account is read and its
\* balance is below the required amount, the transfer ends with the
\* insufficient-balance error and no signAndSendTransaction call is made.
C22_InsufficientBalanceStops ==
  [][\A res \in SenderAccountResults :
       (TokenSenderAccount(res) /\ SenderBalanceTooLow(res)) =>
         /\ pc' = "done"
         /\ outcome' = Threw("INSUFFICIENT_BALANCE")
         /\ signCalls' = 0]_vars

\* a polling phase is running or has just ended
PollingPhase == Polling \/ pc = "awaitAdditionalWait"

\* C23: the delay inserted during one polling phase (1-second intervals and
\* 2-second rate-limit pauses) never exceeds the phase's ceiling: 15 s on
\* devnet, 5 s on mainnet, times the attempt number.
C23_PollDelayWithinCeiling ==
  PollingPhase =>
    pollDelay <= (IF network = "devnet" THEN 15000 ELSE 5000) * retries

\* C24: the polling loop after a chunk-account error runs at most
\* ceil(ceiling / 1000) iterations (ceiling: 15000 ms on devnet, 5000 ms on
\* mainnet, times the attempt number), makes at most two account queries per
\* iteration, stops as soon as the account is found, and always exits.
C24_PollLoopBounded ==
  /\ [](PollingPhase =>
          /\ maxPollAttempts =
               CeilDiv((IF network = "devnet" THEN 15000 ELSE 5000) * retries, 1000)
          /\ pollAttempts <= maxPollAttempts
          /\ iterQueries <= 2)
  /\ [](Polling => pollAttempts < maxPollAttempts /\ ~accountAvailable)
  /\ [][Polling /\ accountAvailable' => pc' = "awaitAdditionalWait"]_vars
  /\ [](Polling => <>(pc = "awaitAdditionalWait"))

C24_Witness ==
  /\ pc = "awaitAdditionalWait"
  /\ network = "devnet"
  /\ retries = 2
  /\ pollAttempts = 30
  /\ ~accountAvailable

\* C25: on a stale-transaction retry the wait comes first, then the
\* blockhash refresh, then the resubmission: when the failure is handled the
\* wait is started and getFreshBlockhash has not been called yet.
C25_WaitBeforeRefresh ==
  [][StaleFailureWithRetriesLeft =>
       /\ pc' = "awaitRetryWait"
       /\ blockhashCalls' = blockhashCalls]_vars

\* an account query of the polling loop is answered with a rate-limit error
RateLimitedQuery == PollFinalized("rateLimit") \/ PollConfirmed("rateLimit")

\* C26: a rate-limit response to an account query during polling aborts
\* neither the polling loop nor the transfer: a 2-second pause is inserted,
\* the loop goes on, and the retry counter is unchanged.
C26_RateLimitTolerated ==
  /\ [][RateLimitedQuery =>
          /\ pc' = "awaitRateLimitWait"
          /\ pollDelay' = pollDelay + 2000
          /\ retries' = retries
          /\ signCalls' = signCalls
          /\ outcome' = NoOutcome]_vars
  /\ [][pc = "awaitRateLimitWait" =>
          /\ PollingPhase'
          /\ pollAttempts' = pollAttempts + 1
          /\ retries' = retries
          /\ outcome' = NoOutcome]_vars

C26_Witness ==
  /\ pc = "awaitPollInterval"
  /\ rateLimits = 1
  /\ pollAttempts = 1
  /\ pollDelay = 3000

\* the errors of the wallet checks, thrown before anything else is looked at
WalletCheckErrors ==
  {Threw("NOT_CONNECTED"), Threw("WALLET_NOT_READY"), Threw("NOT_CONNECTED_TOKEN")}

\* C27: with non-overlapping calls, lastSignature is non-null exactly when
\* lastTransaction is; when non-null they carry the same signature; after a
\* successful transfer they describe that transfer; after a transfer that
\* passed the wallet checks and then failed, both are null.
C27_LastResultConsistent ==
  /\ (lastSignature = NoSig) <=> (lastTransaction = NoTx)
  /\ lastSignature # NoSig => lastTransaction.signature = lastSignature
  /\ (pc = "done" /\ outcome.status = "ok") =>
       /\ lastSignature = outcome.sig
       /\ lastTransaction =
            [signature |-> outcome.sig, type |-> req.kind, amount |-> req.amount,
             recipient |-> Recipient, network |-> network]
  /\ (pc = "done" /\ outcome.status = "err" /\ outcome \notin WalletCheckErrors) =>
       lastSignature = NoSig /\ lastTransaction = NoTx

\* the status of the subscription with the given id ("absent" if not listed)
StatusOf(list, id) ==
  IF \E i \in DOMAIN list : list[i].id = id
    THEN (CHOOSE sub \in {list[i] : i \in DOMAIN list} : sub.id = id).status
    ELSE "absent"

\* C28: on the subscription page a cancelled subscription stays cancelled: no
\* later event, also not the completion of a charge started before the
\* cancellation, makes it active again or drops it.
C28_CancelledStaysCancelled ==
  [][\A id \in 1..MaxSubscriptions :
       StatusOf(subscriptions, id) = "cancelled" =>
         StatusOf(subscriptions', id) = "cancelled"]_vars

\* the wallet is connected and has a smart-wallet public key
ConnectedWithPubkey == mounted /\ lazorkitIsConnected /\ lazorkitSmartWalletPubkey # Null

\* C29: whenever the wallet is connected with a smart-wallet public key, also
\* when it connected after the hook was mounted, a balance query for that
\* wallet is eventually issued, unless the throttle skipped it (or the wallet
\* changed again first).
C29_ConnectedWalletBalanceQueried ==
  \A k \in SmartWallets :
    (ConnectedWithPubkey /\ lazorkitSmartWalletPubkey = k)
      ~> (balanceQueryFor = k \/ balanceThrottled \/
          ~(ConnectedWithPubkey /\ lazorkitSmartWalletPubkey = k))

\* C30: the swap that executeSwap(inputMint, outputMint, amount) submits was
\* built from a quote fetched for exactly that input mint, output mint and
\* amount; no swap for an older quote is submitted after the form changed.
C30_SwapMatchesItsQuote ==
  swapCall.submitted =>
    /\ swapCall.quoteResponse.inputMint = swapCall.inputMint
    /\ swapCall.quoteResponse.outputMint = swapCall.outputMint
    /\ swapCall.amount.k = "num"
    /\ swapCall.quoteResponse.inAmount =
         SmallestUnit(swapCall.inputMint, swapCall.amount.v)

====
